---------------------------- MODULE Spec2Model ----------------------------
(***************************************************************************)
(* Model of app/config.py of the EdTech Hub Evidence Library (a Kerko      *)
(* application).  Importing the module runs, top to bottom: the reads of   *)
(* the environment, the construction of the Kerko composer, the            *)
(* registration of fields, alternateId extractors, facets, a badge and a   *)
(* sort option, the bodies of DevelopmentConfig and ProductionConfig, and  *)
(* the CONFIGS dictionary.  The module body is modelled as a straight-line *)
(* program (ModuleBody) executed one statement per step.  The regex-based  *)
(* extractors and the 'preview' transformers are pure functions, modelled  *)
(* as operators over texts and checked under specifications of their own.  *)
(*                                                                         *)
(* A text is a sequence of tokens.  A token is one character ("a", ":",    *)
(* " ", "\n", ";") or a character run that the patterns of config.py can   *)
(* only match or miss as a whole (a label, an HTML tag).                   *)
(***************************************************************************)
EXTENDS Integers, Sequences, FiniteSets, TLC

VARIABLES
    environ,      \* the process environment (after env.read_env())
    pc,           \* index of the next statement to run (the failing one after a failure)
    err,          \* the exception that ended the import, or "none"
    composer,     \* Config.KERKO_COMPOSER, or NoComposer before line 71
    config,       \* configuration attributes set from the environment so far
    CONFIGS,      \* the CONFIGS dictionary (line 357), or {} before it is built
    log,          \* the statements executed so far, in order
    extra,        \* an item's Extra field (input of the alternateId extractors)
    alternateId,  \* the value an alternateId extractor produced from extra
    citation,     \* an item's formatted citation (input of the 'preview' field)
    preview,      \* the 'preview' value produced from citation
    preview2,     \* the 'preview' transformers applied to preview again
    applied       \* how many times the item's value went through its transformers

vars == <<environ, pc, err, composer, config, CONFIGS, log,
          extra, alternateId, citation, preview, preview2, applied>>

\* KERKO_COMPOSER does not exist before line 71 has run.
NoComposer == [built |-> FALSE]

-----------------------------------------------------------------------------
(* The environment.                                                        *)

\* Variables read with env.str without a default (lines 20, 23-26).
RequiredVars ==
    {"FLASK_APP", "SECRET_KEY", "KERKO_ZOTERO_API_KEY",
     "KERKO_ZOTERO_LIBRARY_ID", "KERKO_ZOTERO_LIBRARY_TYPE"}

\* Variables read with a default (lines 27, 340-342, 344, 350, 352).
OptionalVars ==
    {"KERKO_DATA_DIR", "ASSETS_DEBUG", "KERKO_ZOTERO_START",
     "KERKO_ZOTERO_END", "LOGGING_LEVEL"}

\* Variables parsed by env.bool / env.int: their value may fail to parse.
TypedVars == {"ASSETS_DEBUG", "KERKO_ZOTERO_START", "KERKO_ZOTERO_END"}

\* A variable is absent, holds a value its reader accepts, or (typed
\* variables only) holds a value its reader rejects.
EnvStates(v) ==
    IF v \in TypedVars THEN {"absent", "ok", "malformed"} ELSE {"absent", "ok"}

Environments ==
    {e \in [RequiredVars \cup OptionalVars -> {"absent", "ok", "malformed"}] :
        \A v \in DOMAIN e : e[v] \in EnvStates(v)}


-----------------------------------------------------------------------------
(* The Kerko composer and the specification objects registered with it.    *)

\* Keys of the composer's default fields that config.py relies on: the
\* result fields of line 56 other than 'preview', the excluded 'data'
\* (line 74), 'alternateId' (line 115) and the sort fields (lines 323-325).
DefaultFieldKeys ==
    {"id", "attachments", "bib", "coins", "data", "url",
     "alternateId", "sort_date", "sort_creator", "sort_title"}

\* Keys of the composer's default facets: the three that line 73 excludes,
\* and Kerko's remaining default facet.
DefaultFacetKeys == {"facet_tag", "facet_link", "facet_item_type", "facet_year"}

\* Facets excluded at line 73 with one of them forgotten.
ExcludeDefaultFacetsForgetsOne == {"facet_tag", "facet_link"}

\* exclude_default_facets (line 73).
ExcludeDefaultFacets == {"facet_tag", "facet_link", "facet_item_type"}

\* exclude_default_fields (line 74).
ExcludeDefaultFields == {"data"}

\* The extractors Kerko chains in its default 'alternateId' field.
DefaultAlternateIdExtractors == <<"default:item_data", "default:extra">>

\* A default field of the composer; the default 'data' field stores the raw
\* item data unchanged.
DefaultFieldSpec(k) ==
    [key |-> k,
     field_type |-> IF k = "data" THEN "STORED" ELSE "DEFAULT",
     extractor |-> IF k = "alternateId" THEN DefaultAlternateIdExtractors
                   ELSE IF k = "data" THEN <<"RawDataExtractor">>
                   ELSE <<"default">>]

DefaultFacetSpec(k) ==
    [key |-> k, filter_key |-> k, title |-> k, weight |-> 0, collection_key |-> "none"]

\* Composer(...) (lines 71-77): the default fields and facets, minus the
\* excluded ones; no badge and no custom sort yet.
NewComposer ==
    [built |-> TRUE,
     fields |-> [k \in DefaultFieldKeys \ ExcludeDefaultFields |-> DefaultFieldSpec(k)],
     facets |-> [k \in DefaultFacetKeys \ ExcludeDefaultFacets |-> DefaultFacetSpec(k)],
     badges |-> [k \in {} |-> "none"],
     sorts  |-> [k \in {} |-> "none"]]

\* The 'data' FieldSpec (lines 81-89): the raw item data passed through
\* extra_field_cleaner.
DataFieldSpec ==
    [key |-> "data", field_type |-> "STORED",
     extractor |-> <<"RawDataExtractor", "extra_field_cleaner">>]

\* The 'preview' FieldSpec (lines 96-111).
PreviewFieldSpec ==
    [key |-> "preview", field_type |-> "STORED",
     extractor |-> <<"ItemExtractor:citation", "sub:^<span>", "sub:</span>$">>]

\* The 'edtechhub' FieldSpec (lines 288-292).
EdTechHubFieldSpec ==
    [key |-> "edtechhub", field_type |-> "BOOLEAN",
     extractor |-> <<"InCollectionExtractor:BFS3UXT4">>]

\* The '_boost' FieldSpec (lines 308-312).
BoostFieldSpec ==
    [key |-> "_boost", field_type |-> "None",
     extractor |-> <<"InCollectionBoostExtractor:BFS3UXT4">>]

Facet(k, fk, t, w, ck) ==
    [key |-> k, filter_key |-> fk, title |-> t, weight |-> w, collection_key |-> ck]

\* The facets of lines 154-284 with the collection key of 'facet_featured'
\* pasted from 'facet_country'.
FacetSpecsPastedKey ==
    << Facet("facet_learners", "learners", "Learners", 10, "WZXRTV9N"),
       Facet("facet_educators", "educators", "Educators", 20, "MS38G6YW"),
       Facet("facet_education_systems", "education_systems", "Education systems", 30, "ZN4PI2Z6"),
       Facet("facet_cost_effectiveness", "cost_effectiveness", "Cost effectiveness", 40, "SCMAR3ZW"),
       Facet("facet_hardware_and_modality", "hardware_and_modality", "Hardware and modality", 50, "CE7P7GJX"),
       Facet("facet_educational_level", "educational_level", "Educational level", 60, "B2CQYHX8"),
       Facet("facet_within_country_contexts", "within_country_contexts", "Within-country contexts", 70, "KY3HHD5I"),
       Facet("facet_language_of_publication", "language_of_publication", "Language of publication", 80, "5WYC9ALL"),
       Facet("facet_country", "country", "Geography", 90, "4UP8CZQE"),
       Facet("facet_research_method", "research_method", "Research method", 110, "P4WEVZLQ"),
       Facet("facet_covid_and_reopening_of_schools", "covid_and_reopening_of_schools",
             "COVID and reopening of schools", 120, "TIYLRP8N"),
       Facet("facet_featured", "featured", "Featured publisher", 100, "4UP8CZQE") >>

\* The CollectionFacetSpecs of lines 154-284, in the order of the source.
FacetSpecs ==
    << Facet("facet_learners", "learners", "Learners", 10, "WZXRTV9N"),
       Facet("facet_educators", "educators", "Educators", 20, "MS38G6YW"),
       Facet("facet_education_systems", "education_systems", "Education systems", 30, "ZN4PI2Z6"),
       Facet("facet_cost_effectiveness", "cost_effectiveness", "Cost effectiveness", 40, "SCMAR3ZW"),
       Facet("facet_hardware_and_modality", "hardware_and_modality", "Hardware and modality", 50, "CE7P7GJX"),
       Facet("facet_educational_level", "educational_level", "Educational level", 60, "B2CQYHX8"),
       Facet("facet_within_country_contexts", "within_country_contexts", "Within-country contexts", 70, "KY3HHD5I"),
       Facet("facet_language_of_publication", "language_of_publication", "Language of publication", 80, "5WYC9ALL"),
       Facet("facet_country", "country", "Geography", 90, "4UP8CZQE"),
       Facet("facet_research_method", "research_method", "Research method", 110, "P4WEVZLQ"),
       Facet("facet_covid_and_reopening_of_schools", "covid_and_reopening_of_schools",
             "COVID and reopening of schools", 120, "TIYLRP8N"),
       Facet("facet_featured", "featured", "Featured publisher", 100, "SGAGGGLK") >>

\* The BadgeSpec of lines 295-303; its field is looked up in the composer.
HubBadgeSpec == [key |-> "edtechhub", field |-> "edtechhub", weight |-> 100]

\* The SortSpec of lines 317-333; its fields are looked up in the composer.
HubDescSortSpec ==
    [key |-> "hub_desc", label |-> "EdTech Hub first", weight |-> 5,
     fields |-> <<"edtechhub", "sort_date", "sort_creator", "sort_title">>,
     reverse |-> <<FALSE, TRUE, FALSE, FALSE>>]

\* A dictionary with d[k] set to v (Python's d[k] = v).
Put(d, k, v) == [x \in DOMAIN d \cup {k} |-> IF x = k THEN v ELSE d[x]]

\* Composer.add_field: the field is stored under its key.
AddField(c, spec) == [c EXCEPT !.fields = Put(c.fields, spec.key, spec)]

\* Composer.add_facet: the facet is stored under its key, among the fields
\* and among the facets.
AddFacet(c, spec) ==
    [c EXCEPT !.fields = Put(c.fields, spec.key,
                             [key |-> spec.key, field_type |-> "ID",
                              extractor |-> <<"CollectionFacetTreeExtractor">>]),
              !.facets = Put(c.facets, spec.key, spec)]

\* Composer.add_badge / Composer.add_sort.
AddBadge(c, spec) == [c EXCEPT !.badges = Put(c.badges, spec.key, spec)]
AddSort(c, spec) == [c EXCEPT !.sorts = Put(c.sorts, spec.key, spec)]

\* fields[k].extractor.extractors.append(x) (lines 115, 128, 141).
AppendExtractor(c, k, x) ==
    [c EXCEPT !.fields[k].extractor = Append(@, x)]

-----------------------------------------------------------------------------
(* The module body, statement by statement.                                *)

EnvStmt(reader, name, hasDefault, attr) ==
    [op |-> "env", reader |-> reader, name |-> name, hasDefault |-> hasDefault, attr |-> attr]

\* Lines 20-27 with SECRET_KEY given a default.
ConfigEnvReadsDefaultedSecret ==
    << EnvStmt("str", "FLASK_APP", FALSE, "Config.app_dir"),
       EnvStmt("str", "SECRET_KEY", TRUE, "Config.SECRET_KEY"),
       EnvStmt("str", "KERKO_ZOTERO_API_KEY", FALSE, "Config.KERKO_ZOTERO_API_KEY"),
       EnvStmt("str", "KERKO_ZOTERO_LIBRARY_ID", FALSE, "Config.KERKO_ZOTERO_LIBRARY_ID"),
       EnvStmt("str", "KERKO_ZOTERO_LIBRARY_TYPE", FALSE, "Config.KERKO_ZOTERO_LIBRARY_TYPE"),
       EnvStmt("str", "KERKO_DATA_DIR", TRUE, "Config.KERKO_DATA_DIR") >>

\* Lines 20-27: the environment reads at the head of class Config.
\* KERKO_DATA_DIR defaults to str(app_dir / 'data' / 'kerko').
ConfigEnvReads ==
    << EnvStmt("str", "FLASK_APP", FALSE, "Config.app_dir"),
       EnvStmt("str", "SECRET_KEY", FALSE, "Config.SECRET_KEY"),
       EnvStmt("str", "KERKO_ZOTERO_API_KEY", FALSE, "Config.KERKO_ZOTERO_API_KEY"),
       EnvStmt("str", "KERKO_ZOTERO_LIBRARY_ID", FALSE, "Config.KERKO_ZOTERO_LIBRARY_ID"),
       EnvStmt("str", "KERKO_ZOTERO_LIBRARY_TYPE", FALSE, "Config.KERKO_ZOTERO_LIBRARY_TYPE"),
       EnvStmt("str", "KERKO_DATA_DIR", TRUE, "Config.KERKO_DATA_DIR") >>

\* Lines 71-112: the composer and the 'data' and 'preview' fields.
ComposerSetup ==
    << [op |-> "Composer"],
       [op |-> "add_field", spec |-> DataFieldSpec],
       [op |-> "add_field", spec |-> PreviewFieldSpec] >>

\* Lines 115-152: the three extractors appended to fields['alternateId'].
AlternateIdAppends ==
    << [op |-> "append_extractor", field |-> "alternateId", extractor |-> "extra:EdTechHub.ItemAlsoKnownAs"],
       [op |-> "append_extractor", field |-> "alternateId", extractor |-> "extra:KerkoCite.ItemAlsoKnownAs"],
       [op |-> "append_extractor", field |-> "alternateId", extractor |-> "extra:shortDOI"] >>

\* Lines 155-284: one add_facet per facet, in the order of the source.
FacetAdds == [i \in 1..Len(FacetSpecs) |-> [op |-> "add_facet", spec |-> FacetSpecs[i]]]

\* Lines 287-334 with the badge registered before its field.
HubAddsBadgeFirst ==
    << [op |-> "add_badge", spec |-> HubBadgeSpec],
       [op |-> "add_field", spec |-> EdTechHubFieldSpec],
       [op |-> "add_field", spec |-> BoostFieldSpec],
       [op |-> "add_sort", spec |-> HubDescSortSpec] >>

\* Lines 287-334: the EdTech Hub flag, its badge, the boost and the sort.
HubAdds ==
    << [op |-> "add_field", spec |-> EdTechHubFieldSpec],
       [op |-> "add_badge", spec |-> HubBadgeSpec],
       [op |-> "add_field", spec |-> BoostFieldSpec],
       [op |-> "add_sort", spec |-> HubDescSortSpec] >>

\* Lines 340-344 and 350-352: the environment reads of the two subclasses,
\* which run after the body of Config.
SubclassEnvReads ==
    << EnvStmt("bool", "ASSETS_DEBUG", TRUE, "DevelopmentConfig.ASSETS_DEBUG"),
       EnvStmt("int", "KERKO_ZOTERO_START", TRUE, "DevelopmentConfig.KERKO_ZOTERO_START"),
       EnvStmt("int", "KERKO_ZOTERO_END", TRUE, "DevelopmentConfig.KERKO_ZOTERO_END"),
       EnvStmt("str", "LOGGING_LEVEL", TRUE, "DevelopmentConfig.LOGGING_LEVEL"),
       EnvStmt("bool", "ASSETS_DEBUG", TRUE, "ProductionConfig.ASSETS_DEBUG"),
       EnvStmt("str", "LOGGING_LEVEL", TRUE, "ProductionConfig.LOGGING_LEVEL") >>

\* Lines 357-360.
ExposeConfigs == << [op |-> "CONFIGS"] >>

\* The statements of the module in source order.
ModuleBody ==
    ConfigEnvReads \o ComposerSetup \o AlternateIdAppends \o FacetAdds
        \o HubAdds \o SubclassEnvReads \o ExposeConfigs

NStatements == Len(ModuleBody)

Running == err = "none" /\ pc \in 1..NStatements
Done == err = "none" /\ pc = NStatements + 1
Failed == err # "none"

\* Everything the import does not touch.
ItemVars == <<extra, alternateId, citation, preview, preview2, applied>>

\* The statement at pc ran to completion.
Advance == pc' = pc + 1 /\ err' = err /\ log' = Append(log, pc)

\* The statement at pc raised e: the import stops there.
Raise(e) ==
    /\ pc' = pc /\ err' = e /\ log' = Append(log, pc)
    /\ UNCHANGED <<environ, composer, config, CONFIGS, ItemVars>>

\* env.str / env.bool / env.int (environs): a variable that is absent and
\* has no default raises; a value the reader cannot parse raises; otherwise
\* the attribute is set from the environment or from the default.
ReadEnv(stmt) ==
    IF environ[stmt.name] = "absent" /\ ~stmt.hasDefault
    THEN Raise("EnvError")
    ELSE IF environ[stmt.name] = "malformed"
    THEN Raise("EnvValidationError")
    ELSE /\ config' = Put(config, stmt.attr,
                          IF environ[stmt.name] = "absent" THEN "default" ELSE "env")
         /\ Advance
         /\ UNCHANGED <<environ, composer, CONFIGS, ItemVars>>

EnvStr ==
    /\ Running /\ ModuleBody[pc].op = "env" /\ ModuleBody[pc].reader = "str"
    /\ ReadEnv(ModuleBody[pc])

EnvBool ==
    /\ Running /\ ModuleBody[pc].op = "env" /\ ModuleBody[pc].reader = "bool"
    /\ ReadEnv(ModuleBody[pc])

EnvInt ==
    /\ Running /\ ModuleBody[pc].op = "env" /\ ModuleBody[pc].reader = "int"
    /\ ReadEnv(ModuleBody[pc])

\* Line 71.
ConstructComposer ==
    /\ Running /\ ModuleBody[pc].op = "Composer"
    /\ composer' = NewComposer
    /\ Advance
    /\ UNCHANGED <<environ, config, CONFIGS, ItemVars>>

\* A registration on KERKO_COMPOSER; the name does not exist before line 71.
\* `needs` are the keys looked up in KERKO_COMPOSER.fields (a KeyError when
\* one is missing), `next` the composer after the call.
Register(needs, next) ==
    IF ~composer.built
    THEN Raise("NameError")
    ELSE IF ~(needs \subseteq DOMAIN composer.fields)
    THEN Raise("KeyError")
    ELSE /\ composer' = next
         /\ Advance
         /\ UNCHANGED <<environ, config, CONFIGS, ItemVars>>

RegisterField ==
    /\ Running /\ ModuleBody[pc].op = "add_field"
    /\ Register({}, AddField(composer, ModuleBody[pc].spec))

RegisterExtractor ==
    /\ Running /\ ModuleBody[pc].op = "append_extractor"
    /\ Register({ModuleBody[pc].field},
                AppendExtractor(composer, ModuleBody[pc].field, ModuleBody[pc].extractor))

RegisterFacet ==
    /\ Running /\ ModuleBody[pc].op = "add_facet"
    /\ Register({}, AddFacet(composer, ModuleBody[pc].spec))

RegisterBadge ==
    /\ Running /\ ModuleBody[pc].op = "add_badge"
    /\ Register({ModuleBody[pc].spec.field}, AddBadge(composer, ModuleBody[pc].spec))

RegisterSort ==
    /\ Running /\ ModuleBody[pc].op = "add_sort"
    /\ Register({ModuleBody[pc].spec.fields[i] : i \in DOMAIN ModuleBody[pc].spec.fields},
                AddSort(composer, ModuleBody[pc].spec))

\* Lines 357-360: the two configuration classes are exposed.
Expose ==
    /\ Running /\ ModuleBody[pc].op = "CONFIGS"
    /\ CONFIGS' = {"development", "production"}
    /\ Advance
    /\ UNCHANGED <<environ, composer, config, ItemVars>>

\* The state in which the interpreter starts importing app/config.py.
Init ==
    /\ environ \in Environments
    /\ pc = 1
    /\ err = "none"
    /\ composer = NoComposer
    /\ config = [k \in {} |-> "none"]
    /\ CONFIGS = {}
    /\ log = <<>>
    /\ extra = <<>> /\ alternateId = <<>>
    /\ citation = <<>> /\ preview = <<>> /\ preview2 = <<>>
    /\ applied = 0

Next ==
    \/ EnvStr
    \/ EnvBool
    \/ EnvInt
    \/ ConstructComposer
    \/ RegisterField
    \/ RegisterExtractor
    \/ RegisterFacet
    \/ RegisterBadge
    \/ RegisterSort
    \/ Expose

Spec == Init /\ [][Next]_vars

-----------------------------------------------------------------------------
(* The add_facet calls in an arbitrary order.                              *)

\* The composer as lines 71-152 leave it, before the first add_facet.
ComposerBeforeFacets ==
    LET c1 == AddField(AddField(NewComposer, DataFieldSpec), PreviewFieldSpec)
        c2 == AppendExtractor(c1, "alternateId", AlternateIdAppends[1].extractor)
        c3 == AppendExtractor(c2, "alternateId", AlternateIdAppends[2].extractor)
    IN AppendExtractor(c3, "alternateId", AlternateIdAppends[3].extractor)

\* The composer after the add_facet calls of FacetSpecs[1..n], in source order.
RECURSIVE ComposerAfterFacets(_)
ComposerAfterFacets(n) ==
    IF n = 0 THEN ComposerBeforeFacets
    ELSE AddFacet(ComposerAfterFacets(n - 1), FacetSpecs[n])

FacetOrderInit ==
    /\ environ \in {e \in Environments : \A v \in DOMAIN e : e[v] = "ok"}
    /\ pc = Len(ConfigEnvReads) + Len(ComposerSetup) + Len(AlternateIdAppends) + 1
    /\ err = "none"
    /\ composer = ComposerBeforeFacets
    /\ config = [k \in {} |-> "none"]
    /\ CONFIGS = {}
    /\ log = <<>>
    /\ extra = <<>> /\ alternateId = <<>>
    /\ citation = <<>> /\ preview = <<>> /\ preview2 = <<>>
    /\ applied = 0

\* One of the add_facet calls of lines 155-284 that has not run yet.
AddFacetInAnyOrder ==
    \E i \in 1..Len(FacetSpecs) :
        /\ FacetSpecs[i].key \notin DOMAIN composer.facets
        /\ composer' = AddFacet(composer, FacetSpecs[i])
        /\ UNCHANGED <<environ, pc, err, config, CONFIGS, log, ItemVars>>

FacetOrderNext == AddFacetInAnyOrder

SpecFacetOrder == FacetOrderInit /\ [][FacetOrderNext]_vars

-----------------------------------------------------------------------------
(* Texts, and Python's re as the patterns of config.py use it.             *)

\* The tokens \s matches.
IsSpace(t) == t \in {" ", "\n"}

\* `^` under re.MULTILINE: the start of the text, or just after a newline.
AtLineStart(text, p) == p = 1 \/ text[p - 1] = "\n"

\* `$` under re.MULTILINE: the end of the text, or just before a newline.
AtLineEnd(text, p) == p = Len(text) + 1 \/ text[p] = "\n"

\* Greedy \s* from p: the first position at or after p that holds no space.
RECURSIVE SkipSpaces(_, _)
SkipSpaces(text, p) ==
    IF p <= Len(text) /\ IsSpace(text[p]) THEN SkipSpaces(text, p + 1) ELSE p

\* Greedy .* from p: `.` matches everything but a newline.
RECURSIVE SkipToEndOfLine(_, _)
SkipToEndOfLine(text, p) ==
    IF p <= Len(text) /\ text[p] # "\n" THEN SkipToEndOfLine(text, p + 1) ELSE p

\* Greedy \S+ from p: the first position at or after p that holds a space.
RECURSIVE SkipNonSpaces(_, _)
SkipNonSpaces(text, p) ==
    IF p <= Len(text) /\ ~IsSpace(text[p]) THEN SkipNonSpaces(text, p + 1) ELSE p

\* The last position in lo..hi where `$` matches, or 0: what backtracking
\* out of a greedy \s* that reached hi finds.
RECURSIVE LastLineEnd(_, _, _)
LastLineEnd(text, lo, hi) ==
    IF hi < lo THEN 0
    ELSE IF AtLineEnd(text, hi) THEN hi
    ELSE LastLineEnd(text, lo, hi - 1)

\* The character runs that r'EdTechHub.ItemAlsoKnownAs' matches under
\* re.IGNORECASE, among the tokens of the model: the label, the label in
\* another letter case, and the label with another character in the place of
\* the unescaped dot.
EdTechHubLabelMatches ==
    {"EdTechHub.ItemAlsoKnownAs", "edtechhub.itemalsoknownas", "EdTechHub-ItemAlsoKnownAs"}

\* The same for r'KerkoCite.ItemAlsoKnownAs'.
KerkoCiteLabelMatches ==
    {"KerkoCite.ItemAlsoKnownAs", "kerkocite.itemalsoknownas", "KerkoCite-ItemAlsoKnownAs"}

\* The same for r'shortDOI', which holds no dot.
ShortDOILabelMatches == {"shortDOI", "SHORTDOI"}

NoMatch == [matched |-> FALSE, group |-> <<>>, end |-> 0]

\* r'^\s*<label>\s*:\s*(.*)$' tried at p (lines 120, 133): group 1 and the
\* position where the match ends.
MatchLabelledLine(text, p, labels) ==
    LET q1 == SkipSpaces(text, p)
        q2 == SkipSpaces(text, q1 + 1)
        q3 == SkipSpaces(text, q2 + 1)
        q4 == SkipToEndOfLine(text, q3)
    IN IF /\ AtLineStart(text, p)
          /\ q1 <= Len(text) /\ text[q1] \in labels
          /\ q2 <= Len(text) /\ text[q2] = ":"
       THEN [matched |-> TRUE, group |-> SubSeq(text, q3, q4 - 1), end |-> q4]
       ELSE NoMatch

\* r'^\s*shortDOI\s*:\s*(\S+)\s*$' tried at p (line 146).
MatchShortDOI(text, p) ==
    LET q1 == SkipSpaces(text, p)
        q2 == SkipSpaces(text, q1 + 1)
        q3 == SkipSpaces(text, q2 + 1)
        q4 == SkipNonSpaces(text, q3)
        q5 == LastLineEnd(text, q4, SkipSpaces(text, q4))
    IN IF /\ AtLineStart(text, p)
          /\ q1 <= Len(text) /\ text[q1] \in ShortDOILabelMatches
          /\ q2 <= Len(text) /\ text[q2] = ":"
          /\ q4 > q3
          /\ q5 # 0
       THEN [matched |-> TRUE, group |-> SubSeq(text, q3, q4 - 1), end |-> q5]
       ELSE NoMatch

\* The pattern of a find transformer tried at p, the pattern being named by
\* the label it looks for.
MatchAt(pattern, text, p) ==
    IF pattern = "EdTechHub.ItemAlsoKnownAs" THEN MatchLabelledLine(text, p, EdTechHubLabelMatches)
    ELSE IF pattern = "KerkoCite.ItemAlsoKnownAs" THEN MatchLabelledLine(text, p, KerkoCiteLabelMatches)
    ELSE MatchShortDOI(text, p)

\* re.finditer from position p, as kerko.transformers.find walks it: the
\* group of each match, the scan resuming where the match ended; max_matches
\* = 0 is no limit.
RECURSIVE FindFrom(_, _, _, _)
FindFrom(pattern, text, p, max_matches) ==
    IF p > Len(text) THEN <<>>
    ELSE LET m == MatchAt(pattern, text, p)
         IN IF ~m.matched THEN FindFrom(pattern, text, p + 1, max_matches)
            ELSE IF max_matches = 1 THEN <<m.group>>
            ELSE <<m.group>> \o
                 FindFrom(pattern, text, IF m.end > p THEN m.end ELSE p + 1,
                          IF max_matches = 0 THEN 0 ELSE max_matches - 1)

\* str.split(sep): the pieces between the occurrences of sep, empty pieces
\* included.
RECURSIVE Split(_, _)
Split(text, sep) ==
    IF \A i \in 1..Len(text) : text[i] # sep THEN <<text>>
    ELSE LET i == CHOOSE i \in 1..Len(text) :
                      text[i] = sep /\ \A j \in 1..(i - 1) : text[j] # sep
         IN <<SubSeq(text, 1, i - 1)>> \o Split(SubSeq(text, i + 1, Len(text)), sep)

\* find(max_matches=1) followed by split(sep): the first match's group,
\* split; nothing when the pattern matches nowhere.
FindFirstAndSplit(pattern, text, sep) ==
    LET found == FindFrom(pattern, text, 1, 1)
    IN IF found = <<>> THEN <<>> ELSE Split(found[1], sep)

\* The extractor of lines 116-126 applied to an Extra field.
ExtractEdTechHub(text) == FindFirstAndSplit("EdTechHub.ItemAlsoKnownAs", text, ";")

\* The extractor of lines 129-139.
ExtractKerkoCite(text) == FindFirstAndSplit("KerkoCite.ItemAlsoKnownAs", text, " ")

\* The extractor of lines 142-151: every match, no split.
ExtractShortDOI(text) == FindFrom("shortDOI", text, 1, 0)

-----------------------------------------------------------------------------
(* The extractors at work on an item, after the import.                    *)

MaxExtraLen == 6

\* The texts of at most MaxExtraLen tokens over an alphabet.
Texts(alphabet, maxLen) == UNION {[1..n -> alphabet] : n \in 0..maxLen}

\* The composer the import leaves behind.
ImportedComposer ==
    LET c1 == AddField(ComposerAfterFacets(Len(FacetSpecs)), EdTechHubFieldSpec)
        c2 == AddBadge(c1, HubBadgeSpec)
        c3 == AddField(c2, BoostFieldSpec)
    IN AddSort(c3, HubDescSortSpec)

\* The state a complete import leaves behind, every variable being set in
\* the environment; no item has been processed.
Imported ==
    /\ environ \in {e \in Environments : \A v \in DOMAIN e : e[v] = "ok"}
    /\ pc = NStatements + 1
    /\ err = "none"
    /\ composer = ImportedComposer
    /\ config = [a \in {ModuleBody[i].attr : i \in {j \in 1..NStatements : ModuleBody[j].op = "env"}}
                     |-> "env"]
    /\ CONFIGS = {"development", "production"}
    /\ log = [i \in 1..NStatements |-> i]
    /\ applied = 0

ImportVars == <<environ, pc, err, composer, config, CONFIGS, log>>

EdTechHubAlphabet == {"EdTechHub.ItemAlsoKnownAs", ":", " ", "\n", ";", "a"}

EdTechHubInit ==
    /\ Imported
    /\ extra \in Texts(EdTechHubAlphabet, MaxExtraLen)
    /\ alternateId = <<>>
    /\ citation = <<>> /\ preview = <<>> /\ preview2 = <<>>

\* The EdTechHub extractor of 'alternateId' runs on the item's Extra field.
RunEdTechHubExtractor ==
    /\ applied = 0
    /\ alternateId' = ExtractEdTechHub(extra)
    /\ applied' = 1
    /\ UNCHANGED <<ImportVars, extra, citation, preview, preview2>>

EdTechHubNext == RunEdTechHubExtractor

SpecEdTechHub == EdTechHubInit /\ [][EdTechHubNext]_vars

KerkoCiteAlphabet ==
    {"KerkoCite.ItemAlsoKnownAs", "kerkocite.itemalsoknownas", "KerkoCite-ItemAlsoKnownAs",
     ":", " ", "\n", "a"}

KerkoCiteInit ==
    /\ Imported
    /\ extra \in Texts(KerkoCiteAlphabet, MaxExtraLen)
    /\ alternateId = <<>>
    /\ citation = <<>> /\ preview = <<>> /\ preview2 = <<>>

\* The KerkoCite extractor of 'alternateId' runs on the item's Extra field.
RunKerkoCiteExtractor ==
    /\ applied = 0
    /\ alternateId' = ExtractKerkoCite(extra)
    /\ applied' = 1
    /\ UNCHANGED <<ImportVars, extra, citation, preview, preview2>>

KerkoCiteNext == RunKerkoCiteExtractor

SpecKerkoCite == KerkoCiteInit /\ [][KerkoCiteNext]_vars

ShortDOIAlphabet == {"shortDOI", "SHORTDOI", ":", " ", "\n", "a"}

ShortDOIInit ==
    /\ Imported
    /\ extra \in Texts(ShortDOIAlphabet, MaxExtraLen)
    /\ alternateId = <<>>
    /\ citation = <<>> /\ preview = <<>> /\ preview2 = <<>>

\* The shortDOI extractor of 'alternateId' runs on the item's Extra field.
RunShortDOIExtractor ==
    /\ applied = 0
    /\ alternateId' = ExtractShortDOI(extra)
    /\ applied' = 1
    /\ UNCHANGED <<ImportVars, extra, citation, preview, preview2>>

ShortDOINext == RunShortDOIExtractor

SpecShortDOI == ShortDOIInit /\ [][ShortDOINext]_vars

-----------------------------------------------------------------------------
(* The transformers of the 'preview' field.                                *)

MaxCitationLen == 5

\* r'<span>' without its anchor: a match wherever the tag stands.
SpanAnywhere(value, p) == value[p] = "<span>"

\* r'^<span>' (line 107), no re.MULTILINE: `^` is the start of the value.
SpanAtStart(value, p) == p = 1 /\ value[p] = "<span>"

\* r'</span>$' (line 108), no re.MULTILINE: `$` is the end of the value, or
\* just before a newline that ends the value.
SpanAtEnd(value, p) ==
    /\ value[p] = "</span>"
    /\ \/ p = Len(value)
       \/ p = Len(value) - 1 /\ value[Len(value)] = "\n"

\* A pattern of the 'preview' transformers tried at p.
MatchesAt(pattern, value, p) ==
    IF pattern = "^<span>" THEN SpanAtStart(value, p) ELSE SpanAtEnd(value, p)

\* re.sub(pattern, repl, value, count=1) for a pattern that matches one
\* token: the leftmost position where the pattern matches is replaced.
SubFirst(pattern, repl, value) ==
    IF \A p \in 1..Len(value) : ~MatchesAt(pattern, value, p) THEN value
    ELSE LET p == CHOOSE p \in 1..Len(value) :
                      /\ MatchesAt(pattern, value, p)
                      /\ \A q \in 1..(p - 1) : ~MatchesAt(pattern, value, q)
         IN [i \in 1..Len(value) |-> IF i = p THEN repl ELSE value[i]]

\* The two transformers of lines 106-109, in sequence.
PreviewTransformers(value) ==
    SubFirst("</span>$", "</div>", SubFirst("^<span>", "<div class=\"csl-entry\">", value))

CitationAlphabet == {"<span>", "</span>", "x", "\n"}

PreviewInit ==
    /\ Imported
    /\ citation \in Texts(CitationAlphabet, MaxCitationLen)
    /\ preview = <<>> /\ preview2 = <<>>
    /\ extra = <<>> /\ alternateId = <<>>

\* The 'preview' field is extracted from the item's citation.
BuildPreview ==
    /\ applied = 0
    /\ preview' = PreviewTransformers(citation)
    /\ applied' = 1
    /\ UNCHANGED <<ImportVars, extra, alternateId, citation, preview2>>

\* The same transformers are applied to their own result.
ReapplyPreviewTransformers ==
    /\ applied = 1
    /\ preview2' = PreviewTransformers(preview)
    /\ applied' = 2
    /\ UNCHANGED <<ImportVars, extra, alternateId, citation, preview>>

PreviewNext ==
    \/ BuildPreview
    \/ ReapplyPreviewTransformers

SpecPreview == PreviewInit /\ [][PreviewNext]_vars

\* The preview differs from the citation in an opening tag at position 1 and
\* a closing tag at position `closing` (0: none) at most, and transforming it
\* again changes nothing.
PreviewRewrapsAt(closing) ==
    /\ applied >= 1 =>
           /\ Len(preview) = Len(citation)
           /\ \A i \in 1..Len(citation) :
                  preview[i] = IF i = 1 /\ citation[1] = "<span>" THEN "<div class=\"csl-entry\">"
                               ELSE IF i = closing THEN "</div>"
                               ELSE citation[i]
    /\ applied = 2 => preview2 = preview

\* C7 as stated: only a </span> at the very end of the citation is replaced.
C7_OnlyAtVeryEnd ==
    PreviewRewrapsAt(IF citation # <<>> /\ citation[Len(citation)] = "</span>"
                     THEN Len(citation) ELSE 0)

\* C7 amended: a <span> at the very start becomes <div class="csl-entry">; a
\* </span> at the very end, or just before a newline that ends the citation,
\* becomes </div>; every other token, nested <span> and </span> included, is
\* unchanged; a second application changes nothing.
C7_PreviewRewrap ==
    PreviewRewrapsAt(
        IF citation # <<>> /\ citation[Len(citation)] = "</span>" THEN Len(citation)
        ELSE IF /\ Len(citation) >= 2
                /\ citation[Len(citation)] = "\n"
                /\ citation[Len(citation) - 1] = "</span>" THEN Len(citation) - 1
        ELSE 0)

\* C7 witness: a wrapped citation with a nested span, transformed twice.
C7_Witness ==
    /\ applied = 2
    /\ citation = <<"<span>", "<span>", "x", "</span>", "</span>">>
    /\ preview = <<"<div class=\"csl-entry\">", "<span>", "x", "</span>", "</div>">>

-----------------------------------------------------------------------------
(* What the extractors are said to do, line by line.                       *)

\* The lines of a text.
Lines(text) == Split(text, "\n")

\* The first position at or after p that holds no blank.
RECURSIVE SkipBlanks(_, _)
SkipBlanks(line, p) ==
    IF p <= Len(line) /\ line[p] = " " THEN SkipBlanks(line, p + 1) ELSE p

\* A line of the form `<label>: <value>`: optional blanks, the label in any
\* letter case, optional blanks, a colon, optional blanks, the value.
IsLabelledLine(line, labels) ==
    LET q1 == SkipBlanks(line, 1)
        q2 == SkipBlanks(line, q1 + 1)
    IN /\ q1 <= Len(line) /\ line[q1] \in labels
       /\ q2 <= Len(line) /\ line[q2] = ":"

\* The value of such a line: what follows the colon and the blanks after it.
ValueOf(line) ==
    LET q1 == SkipBlanks(line, 1)
        q2 == SkipBlanks(line, q1 + 1)
        q3 == SkipBlanks(line, q2 + 1)
    IN SubSeq(line, q3, Len(line))

\* The lines of a text that have the form, in order.
LabelledLines(text, labels) ==
    SelectSeq(Lines(text), LAMBDA line : IsLabelledLine(line, labels))

KerkoCiteLabels == {"KerkoCite.ItemAlsoKnownAs", "kerkocite.itemalsoknownas"}
EdTechHubLabels == {"EdTechHub.ItemAlsoKnownAs", "edtechhub.itemalsoknownas"}
ShortDOILabels == {"shortDOI", "SHORTDOI"}

\* C2: when the Extra field holds a line `KerkoCite.ItemAlsoKnownAs: <ids>`,
\* the KerkoCite extractor returns the space-separated pieces of the value of
\* the first such line, and so nothing from any other line.
C2_KerkoCiteFirstLineIds ==
    (applied = 1 /\ LabelledLines(extra, KerkoCiteLabels) # <<>>) =>
        alternateId = Split(ValueOf(LabelledLines(extra, KerkoCiteLabels)[1]), " ")

\* C6: when the Extra field holds several `EdTechHub.ItemAlsoKnownAs:` lines,
\* the EdTechHub extractor returns the value of the first of them split on
\* ';', and nothing from the later ones.
C6_EdTechHubFirstLineOnly ==
    (applied = 1 /\ Len(LabelledLines(extra, EdTechHubLabels)) >= 2) =>
        alternateId = Split(ValueOf(LabelledLines(extra, EdTechHubLabels)[1]), ";")

\* The value of a `shortDOI:` line is a token: not empty, with no blank
\* inside (blanks after it are allowed).
IsShortDOITokenLine(line) ==
    /\ IsLabelledLine(line, ShortDOILabels)
    /\ LET v == ValueOf(line)
           e == SkipNonSpaces(v, 1)
       IN e > 1 /\ SkipBlanks(v, e) = Len(v) + 1

TokenOf(line) == LET v == ValueOf(line) IN SubSeq(v, 1, SkipNonSpaces(v, 1) - 1)

RECURSIVE MapTokenOf(_)
MapTokenOf(lines) ==
    IF lines = <<>> THEN <<>> ELSE <<TokenOf(Head(lines))>> \o MapTokenOf(Tail(lines))

\* C5: the shortDOI extractor returns, in order, the token of every line
\* `shortDOI: <token>` whose value is one whitespace-free token; other lines
\* contribute nothing, and no token comes from another line than its label's.
C5_ShortDOITokensPerLine ==
    applied = 1 =>
        alternateId = MapTokenOf(SelectSeq(Lines(extra), IsShortDOITokenLine))

-----------------------------------------------------------------------------
(* Properties of the import.                                               *)

WellFormedEnv == \A v \in OptionalVars : environ[v] # "malformed"
MissingRequired == \E v \in RequiredVars : environ[v] = "absent"

\* The statements that read variable v.
ReadsOf(v) == {i \in 1..NStatements : ModuleBody[i].op = "env" /\ ModuleBody[i].name = v}

\* C1: with well-formed optional variables, the import fails if and only if
\* a required variable is absent: it never gets past the read of an absent
\* required variable, it fails with an EnvError only and only when a required
\* variable is absent, an absent optional variable yields its default, and a
\* failed import has built no composer and exposed no configuration.
C1_FailsIffRequiredMissing ==
    WellFormedEnv =>
        /\ Failed => /\ MissingRequired
                     /\ err = "EnvError"
                     /\ ModuleBody[pc].name \in RequiredVars
                     /\ environ[ModuleBody[pc].name] = "absent"
                     /\ ~composer.built
                     /\ CONFIGS = {}
        /\ MissingRequired =>
               /\ \E v \in RequiredVars :
                      environ[v] = "absent" /\ \A i \in ReadsOf(v) : pc <= i
               /\ ~Done /\ ~composer.built /\ CONFIGS = {}
        /\ (Running /\ ModuleBody[pc].op = "env" /\ environ[ModuleBody[pc].name] = "absent")
               => (ENABLED Next)
        /\ \A i \in 1..NStatements :
               (i < pc /\ ModuleBody[i].op = "env") =>
                   /\ ModuleBody[i].attr \in DOMAIN config
                   /\ config[ModuleBody[i].attr] =
                          IF environ[ModuleBody[i].name] = "absent" THEN "default" ELSE "env"
        /\ Done => (~MissingRequired /\ composer.built /\ CONFIGS # {})

\* C1 witness: an import that failed on an absent required variable while
\* optional variables were absent too.
C1_Witness ==
    /\ Failed /\ WellFormedEnv
    /\ environ["KERKO_ZOTERO_LIBRARY_TYPE"] = "absent"
    /\ environ["KERKO_DATA_DIR"] = "absent"
    /\ environ["LOGGING_LEVEL"] = "absent"
    /\ "Config.KERKO_ZOTERO_LIBRARY_ID" \in DOMAIN config

\* The keys a statement looks up in KERKO_COMPOSER.fields.
Lookups(stmt) ==
    IF stmt.op = "append_extractor" THEN {stmt.field}
    ELSE IF stmt.op = "add_badge" THEN {stmt.spec.field}
    ELSE IF stmt.op = "add_sort" THEN {stmt.spec.fields[i] : i \in DOMAIN stmt.spec.fields}
    ELSE {}

IsRegistration(stmt) ==
    stmt.op \in {"add_field", "append_extractor", "add_facet", "add_badge", "add_sort"}

\* The statements that completed.
Completed == {log[i] : i \in 1..Len(log)} \ (IF Failed THEN {pc} ELSE {})

\* No lookup failed, every completed lookup found its field, no statement is
\* in the log twice and the log is in source order, and nothing is
\* registered once CONFIGS is built.
OneShotRegistration ==
    /\ err \notin {"KeyError", "NameError"}
    /\ \A i \in Completed : composer.built => Lookups(ModuleBody[i]) \subseteq DOMAIN composer.fields
    /\ \A i \in Completed : IsRegistration(ModuleBody[i]) => composer.built
    /\ \A i, j \in 1..Len(log) : i < j => log[i] < log[j]
    /\ \A i, j \in 1..Len(log) :
           (i < j /\ ModuleBody[log[i]].op = "CONFIGS") => ~IsRegistration(ModuleBody[log[j]])
    /\ CONFIGS # {} => Done

\* C4 as stated: every read of the environment precedes the construction
\* of the composer, which precedes the registrations, which precede CONFIGS.
C4_EnvReadsBeforeComposer ==
    /\ (Running /\ ModuleBody[pc].op = "env") => ~composer.built
    /\ OneShotRegistration

\* C4 amended: the reads of the required variables and of KERKO_DATA_DIR
\* precede the construction of the composer; the reads of ASSETS_DEBUG,
\* KERKO_ZOTERO_START, KERKO_ZOTERO_END and LOGGING_LEVEL follow the last
\* registration and precede CONFIGS; lookups find their field, no statement
\* runs twice, nothing is registered after CONFIGS.
C4_OneShotOrder ==
    /\ (Running /\ ModuleBody[pc].op = "env") =>
           IF ModuleBody[pc].name \in RequiredVars \cup {"KERKO_DATA_DIR"}
           THEN ~composer.built
           ELSE /\ composer.built
                /\ "hub_desc" \in DOMAIN composer.sorts
                /\ CONFIGS = {}
    /\ OneShotRegistration

\* C4 witness: the import completed, with the badge and the sort registered.
C4_Witness ==
    /\ Done /\ CONFIGS # {}
    /\ "edtechhub" \in DOMAIN composer.badges
    /\ "hub_desc" \in DOMAIN composer.sorts
    /\ Len(composer.fields["alternateId"].extractor) = Len(DefaultAlternateIdExtractors) + 3

\* C8: once add_field has run for 'data', and so at every point after the
\* import, the composer holds one field of key 'data', the STORED field that
\* passes the raw data through extra_field_cleaner; the default 'data' field
\* is never in the composer, and neither are the excluded default facets.
C8_DataFieldReplaced ==
    composer.built =>
        /\ \A k \in DOMAIN composer.fields :
               composer.fields[k].key = "data" => composer.fields[k] = DataFieldSpec
        /\ (\E i \in Completed : ModuleBody[i] = [op |-> "add_field", spec |-> DataFieldSpec])
               => Cardinality({k \in DOMAIN composer.fields : composer.fields[k].key = "data"}) = 1
        /\ Done => /\ "data" \in DOMAIN composer.fields
                   /\ composer.fields["data"].field_type = "STORED"
                   /\ composer.fields["data"].extractor = <<"RawDataExtractor", "extra_field_cleaner">>
        /\ DOMAIN composer.facets \cap {"facet_tag", "facet_link", "facet_item_type"} = {}

\* C8 witness: the import completed and the composer holds the 'data' field.
C8_Witness ==
    /\ Done
    /\ "data" \in DOMAIN composer.fields
    /\ "facet_featured" \in DOMAIN composer.facets

CustomFacetKeys == {FacetSpecs[i].key : i \in 1..Len(FacetSpecs)}

\* The facets registered with add_facet so far.
RegisteredFacets == {composer.facets[k] : k \in DOMAIN composer.facets \cap CustomFacetKeys}

\* C3: whatever the order of the add_facet calls, the registered facets
\* never share a key, a filter_key or a collection_key, each has a
\* collection_key, and once the 12 calls have run the composer holds 12
\* custom facets with 12 distinct collection keys and is the composer that
\* the order of the source produces.
C3_FacetsOneToOne ==
    /\ \A f, g \in RegisteredFacets :
           f # g => /\ f.key # g.key
                    /\ f.filter_key # g.filter_key
                    /\ f.collection_key # g.collection_key
    /\ \A f \in RegisteredFacets : f.collection_key # "none"
    /\ Cardinality({f.collection_key : f \in RegisteredFacets})
           = Cardinality(DOMAIN composer.facets \cap CustomFacetKeys)
    /\ CustomFacetKeys \subseteq DOMAIN composer.facets =>
           /\ Cardinality(RegisteredFacets) = 12
           /\ composer = ComposerAfterFacets(Len(FacetSpecs))

\* C3 witness: the 12 add_facet calls have run.
C3_Witness ==
    /\ CustomFacetKeys \subseteq DOMAIN composer.facets
    /\ composer.facets["facet_featured"].collection_key = "SGAGGGLK"
=============================================================================
